---- MODULE Spec2Model ----
(***************************************************************************)
(* One run of main() of the three news-summarizer scripts:                 *)
(*   app      src/app.py       OpenAI assistants, poll loop with a timeout *)
(*   open     src/sum_open.py  OpenAI assistants, poll loop without one    *)
(*   groq     src/sum_groq.py  Groq chat completion + text to speech       *)
(* The script is chosen by `variant`.  Every outbound call (NewsAPI, the   *)
(* assistants API, Groq, gTTS) is one action; the action also carries the  *)
(* local code that runs up to the next outbound call or sleep.  `calls` is *)
(* the trace of outbound calls with their results, as a recording fake of  *)
(* the clients would see it.  The clock advances in time.sleep only:       *)
(* outbound calls are taken to return at once.                             *)
(***************************************************************************)
EXTENDS Integers, Sequences, FiniteSets, TLC

VARIABLES
    variant,        \* which script runs
    pc,             \* position of main()
    topic,          \* st.text_input value
    submit_button,  \* st.form_submit_button / st.button value
    news_data,      \* get_news' news_data["articles"], as the provider sent it
    news_articles,  \* main's news_articles
    assistant,      \* NewsSummarizer.assistant (None or its id)
    thread,         \* NewsSummarizer.thread (None or its id)
    run_status,     \* run.status of summarize_news' local `run`
    elapsed,        \* time.time() - start_time (seconds since runs.create)
    calls,          \* trace of outbound calls: [op, res]
    messages,       \* messages.data as returned by messages.list
    summary,        \* main's summary (summarize_news' return value)
    outcome,        \* the return statement summarize_news left through
    seen,           \* the statuses runs.retrieve has returned so far
    ui,             \* what streamlit was told to show: [kind, text]
    shown,          \* the articles rendered in the expander
    sessions,       \* concurrent runs of main: each one's position and summarizer
    remote,         \* the assistants API's objects: who created each of them
    targets         \* the calls made on threads and runs: [by, op, thread, run]

concVars == <<sessions, remote, targets>>

vars == <<variant, pc, topic, submit_button, news_data, news_articles, assistant, thread,
          run_status, elapsed, calls, messages, summary, outcome, seen, ui, shown,
          concVars>>

----------------------------------------------------------------------------
\* Bounds of the model

MaxArticles == 2    \* longest provider response
MaxMsgs == 2        \* longest messages.data
MaxLog == 26        \* longest recorded call trace (app.py needs 25)
NumInvocations == 2 \* concurrent runs of main

\* Program constants

Timeout == 90           \* summarize_news(timeout=90), app.py
PollSleep == 5          \* time.sleep(5), app.py
OpenPollSleep == 3      \* time.sleep(3), sum_open.py
AppPageSize == 15       \* get_news(page_size=15), app.py
GroqPageSize == 5       \* fetch_news(page_size=5), sum_groq.py

None == "None"
Absent == "<absent>"    \* a key the provider's record does not carry
NoSummary == "No summary generated."

Variants == {"app", "open", "groq"}
\* a topic is the sequence of its characters
Topics == {<<>>, <<" ">>, <<"a", "i">>}
Statuses == {"running", "completed", "failed", "cancelled"}
Roles == {"user", "assistant"}
Texts == {"A", "B"}
Messages == [role : Roles, text : Texts]
Dates == {"2024-01-01", "2024-01-02"}
RawArticles == {[title |-> "t1", url |-> "u1", publishedAt |-> "2024-01-01"],
                [title |-> Absent, url |-> "", publishedAt |-> "2024-01-02"]}
\* what requests.get can bring back: a 2xx JSON object with a list of articles,
\* a connection failure, a non-2xx status, a body that is no JSON, a JSON body
\* that is no object, an "articles" value that is no list, an article whose
\* "source" is null
ResponseKinds == {"ok", "network_error", "http_error", "bad_json", "not_object",
                  "articles_not_list", "null_source"}

Invocations == 1..NumInvocations

ClockCap == Timeout + PollSleep

SeqsUpTo(S, n) == UNION {[1..k -> S] : k \in 0..n}

Min(a, b) == IF a < b THEN a ELSE b

----------------------------------------------------------------------------
\* Helpers

\* Python truthiness of a str-or-None value
Truthy(v) == v # None /\ v # ""

\* s[:n]
Take(s, n) == SubSeq(s, 1, Min(Len(s), n))

\* one more entry of the call trace
Log(c, op, res) ==
    IF Len(c) < MaxLog THEN Append(c, [op |-> op, res |-> res]) ELSE c

Show(u, kind, text) == Append(u, [kind |-> kind, text |-> text])

Ops(c) == {c[i].op : i \in 1..Len(c)}

Count(c, op) == Cardinality({i \in 1..Len(c) : c[i].op = op})

----------------------------------------------------------------------------
\* get_news / fetch_news

\* article.get(key, default)
Get(v, default) == IF v = Absent THEN default ELSE v

\* the f-string built from one provider record
FormatArticle(v, a) ==
    IF v = "groq"
    THEN [title |-> Get(a.title, "No Title Available"), url |-> Get(a.url, "#"),
          published |-> Get(a.publishedAt, "Unknown Date")]
    ELSE [title |-> Get(a.title, "N/A"), url |-> Get(a.url, "")]

\* news_data.get("articles", [])[:page_size]; sum_open.py does not slice
Page(v, raws) ==
    CASE v = "app" -> Take(raws, AppPageSize)
      [] v = "groq" -> Take(raws, GroqPageSize)
      [] OTHER -> raws

FormatAll(v, raws) == [i \in 1..Len(Page(v, raws)) |-> FormatArticle(v, Page(v, raws)[i])]

\* the exceptions the except clause catches (requests.RequestException)
IsRequestException(kind) == kind \in {"network_error", "http_error"}

FetchErrorText(v) ==
    CASE v = "app" -> "News API request failed"
      [] v = "open" -> "Could not fetch news"
      [] OTHER -> "News API Error"

\* the early return left out
AfterFetch_NoEarlyReturn(v, articles) ==
    IF v = "groq" THEN "groq_summarize" ELSE "create_assistant"

\* main, after the fetch: `if not news_articles: st.warning(...); return`
AfterFetch(v, articles) ==
    IF articles = <<>> THEN "done"
    ELSE IF v = "groq" THEN "groq_summarize" ELSE "create_assistant"

AfterFetchUi(u, articles) ==
    IF articles = <<>> THEN Show(u, "warning", "No recent news articles found") ELSE u

----------------------------------------------------------------------------
\* summarize_news

\* the deadline compared one sleep too late
DeadlineExceeded_OneSleepLate(e) == e > Timeout + PollSleep

\* `time.time() - start_time > timeout`
DeadlineExceeded(e) == e > Timeout

\* next((text of msg for msg in reversed(messages.data) if assistant), default)
RECURSIVE LastAssistantText(_)
LastAssistantText(m) ==
    IF m = <<>> THEN NoSummary
    ELSE IF m[Len(m)].role = "assistant" THEN m[Len(m)].text
    ELSE LastAssistantText(SubSeq(m, 1, Len(m) - 1))

\* for msg in messages.data: if assistant: return text; return default
RECURSIVE FirstAssistantText(_)
FirstAssistantText(m) ==
    IF m = <<>> THEN NoSummary
    ELSE IF m[1].role = "assistant" THEN m[1].text
    ELSE FirstAssistantText(Tail(m))

\* the generator's filter never matching
AppExtract_DefaultOnly(m) == NoSummary

\* next() given None as its default
AppExtract_NoneWhenMissing(m) ==
    IF \E i \in 1..Len(m) : m[i].role = "assistant" THEN LastAssistantText(m) ELSE None

AppExtract(m) == LastAssistantText(m)

OpenExtract(m) == FirstAssistantText(m)

Extract(v, m) == IF v = "app" THEN AppExtract(m) ELSE OpenExtract(m)

\* the statuses that end sum_open.py's `while run.status not in [...]`
OpenLoopEnds(s) == s \in {"completed", "failed"}

\* app.py's `elif run.status in ["failed", "cancelled"]`
AppRunFailed(s) == s \in {"failed", "cancelled"}

\* what summarize_news returns from its failure branches
ReturnOnTimeout == None

ReturnOnRemoteFailure == None

ReturnOnException == None

SummarizeErrorText(v) ==
    IF v = "app" THEN "News summarization error" ELSE "Could not summarize news"

\* an except clause that reports the error and goes back to polling
SummarizeRaised_Retry ==
    /\ ui' = Show(ui, "error", SummarizeErrorText(variant))
    /\ pc' = "poll"
    /\ UNCHANGED <<summary, outcome>>

\* the except clause of summarize_news
SummarizeRaised ==
    /\ ui' = Show(ui, "error", SummarizeErrorText(variant))
    /\ summary' = ReturnOnException
    /\ outcome' = "SummarizationError"
    /\ pc' = "display"

----------------------------------------------------------------------------
Init ==
    /\ variant \in Variants
    /\ topic \in Topics
    /\ submit_button \in BOOLEAN
    /\ pc = "main"
    /\ news_data = <<>>
    /\ news_articles = <<>>
    /\ assistant = None
    /\ thread = None
    /\ run_status = None
    /\ elapsed = 0
    /\ calls = <<>>
    /\ messages = <<>>
    /\ summary = None
    /\ outcome = "none"
    /\ seen = {}
    /\ ui = <<>>
    /\ shown = <<>>
    /\ sessions = [i \in Invocations |->
                      [pc |-> "create_assistant", assistant |-> 0, thread |-> 0, run |-> 0]]
    /\ remote = [assistants |-> <<>>, threads |-> <<>>, runs |-> <<>>]
    /\ targets = {}

\* `if submit_button and topic:` (a str is true when it is not empty)
TopicAccepted(t) == Len(t) > 0

MainGuard ==
    /\ pc = "main"
    /\ pc' = IF submit_button /\ TopicAccepted(topic) THEN "get_news" ELSE "done"
    /\ UNCHANGED <<concVars, variant, seen, news_data, topic, submit_button, news_articles, assistant, thread,
                   run_status, elapsed, calls, messages, summary, outcome, ui, shown>>

\* whether response.json() failing is caught by `except requests.RequestException`:
\* requests.JSONDecodeError is a RequestException from requests 2.27 on, a plain
\* ValueError before, so both happen
JsonErrorCaught == BOOLEAN

\* news_articles = get_news(topic), and the early return on an empty list
GetNews ==
    /\ pc = "get_news"
    /\ \E kind \in ResponseKinds, raws \in SeqsUpTo(RawArticles, MaxArticles),
          caught \in JsonErrorCaught :
         /\ kind # "ok" => raws = <<>>
         /\ kind # "bad_json" => caught
         /\ calls' = Log(calls, "newsapi.get", kind)
         /\ news_data' = raws
         /\ CASE kind = "ok" ->
                   /\ news_articles' = FormatAll(variant, raws)
                   /\ ui' = AfterFetchUi(ui, FormatAll(variant, raws))
                   /\ pc' = AfterFetch(variant, FormatAll(variant, raws))
              [] IsRequestException(kind) \/ (kind = "bad_json" /\ caught) ->
                   /\ news_articles' = <<>>
                   /\ ui' = AfterFetchUi(Show(ui, "error", FetchErrorText(variant)), <<>>)
                   /\ pc' = AfterFetch(variant, <<>>)
              [] OTHER ->
                   \* ValueError from json(), or AttributeError / TypeError from
                   \* .get and the slice on a body of another shape: not a
                   \* RequestException, so it leaves get_news and main
                   /\ pc' = "crashed"
                   /\ UNCHANGED <<news_articles, ui>>
    /\ UNCHANGED <<concVars, variant, seen, topic, submit_button, assistant, thread, run_status,
                   elapsed, messages, summary, outcome, shown>>

----------------------------------------------------------------------------
\* NewsSummarizer (app.py, sum_open.py)

AssistantErrorText(v) ==
    IF v = "app" THEN "Assistant creation failed" ELSE "Could not create assistant"

ThreadErrorText(v) ==
    IF v = "app" THEN "Thread creation failed" ELSE "Could not create conversation thread"

AddNewsErrorText(v) ==
    IF v = "app" THEN "Failed to add news to thread" ELSE "Could not process news articles"

\* create_assistant's return value: self.assistant.id, or None from the except clause
CreateAssistantReturn(ok) == IF ok THEN "asst_1" ELSE None

\* the except clause not returning None
CreateThreadReturn_IdOnFailure(ok) == "thread_1"

\* create_thread's return value: self.thread.id, or None from the except clause
CreateThreadReturn(ok) == IF ok THEN "thread_1" ELSE None

\* summarizer = NewsSummarizer(); summarizer.create_assistant(topic)
CreateAssistant ==
    /\ pc = "create_assistant"
    /\ \E ok \in BOOLEAN :
         /\ calls' = Log(calls, "assistants.create", IF ok THEN "ok" ELSE "raise")
         /\ assistant' = IF ok THEN "asst_1" ELSE None
         /\ ui' = IF ok THEN ui ELSE Show(ui, "error", AssistantErrorText(variant))
         /\ pc' = IF Truthy(CreateAssistantReturn(ok)) THEN "create_thread" ELSE "done"
    /\ thread' = None
    /\ UNCHANGED <<concVars, variant, seen, news_data, topic, submit_button, news_articles, run_status, elapsed,
                   messages, summary, outcome, shown>>

\* summarizer.create_thread(), reached when create_assistant returned an id
CreateThread ==
    /\ pc = "create_thread"
    /\ \E ok \in BOOLEAN :
         /\ calls' = Log(calls, "threads.create", IF ok THEN "ok" ELSE "raise")
         /\ thread' = IF ok THEN "thread_1" ELSE None
         /\ ui' = IF ok THEN ui ELSE Show(ui, "error", ThreadErrorText(variant))
         /\ pc' = IF Truthy(CreateThreadReturn(ok)) THEN "add_news" ELSE "done"
    /\ UNCHANGED <<concVars, variant, seen, news_data, topic, submit_button, news_articles, assistant, run_status,
                   elapsed, messages, summary, outcome, shown>>

\* add_news_to_thread sending the message again after a failure
AddNews_Retry ==
    /\ pc = "add_news"
    /\ \E ok \in BOOLEAN :
         /\ calls' = Log(calls, "messages.create", IF ok THEN "ok" ELSE "raise")
         /\ ui' = IF ok THEN ui ELSE Show(ui, "error", AddNewsErrorText(variant))
         /\ pc' = IF ok THEN "runs_create" ELSE "add_news"
    /\ UNCHANGED <<concVars, variant, seen, news_data, topic, submit_button, news_articles, assistant,
                   thread, run_status, elapsed, messages, summary, outcome, shown>>

\* summarizer.add_news_to_thread(news_articles, topic)
AddNews ==
    /\ pc = "add_news"
    /\ IF ~Truthy(thread)
       THEN \* raise ValueError("Thread not initialized"), outside the try
            /\ pc' = "crashed"
            /\ UNCHANGED <<calls, ui>>
       ELSE \E ok \in BOOLEAN :
            /\ calls' = Log(calls, "messages.create", IF ok THEN "ok" ELSE "raise")
            /\ ui' = IF ok THEN ui ELSE Show(ui, "error", AddNewsErrorText(variant))
            /\ pc' = "runs_create"
    /\ UNCHANGED <<concVars, variant, seen, news_data, topic, submit_button, news_articles, assistant, thread,
                   run_status, elapsed, messages, summary, outcome, shown>>

\* `or` written for `and`
NotInitialized_NeitherSet(t, a) == ~(Truthy(t) \/ Truthy(a))

\* `if not (self.thread and self.assistant)`
NotInitialized(t, a) == ~(Truthy(t) /\ Truthy(a))

\* summarize_news up to runs.create and start_time = time.time()
RunsCreate ==
    /\ pc = "runs_create"
    /\ IF NotInitialized(thread, assistant)
       THEN \* raise ValueError("Thread or Assistant not initialized")
            /\ pc' = "crashed"
            /\ UNCHANGED <<calls, ui, run_status, elapsed, summary, outcome>>
       ELSE \/ /\ calls' = Log(calls, "runs.create", "raise")
               /\ SummarizeRaised
               /\ UNCHANGED <<run_status, elapsed>>
            \/ \E s \in Statuses :
               /\ calls' = Log(calls, "runs.create", "ok")
               /\ run_status' = s
               /\ elapsed' = 0
               /\ pc' = "poll"
               /\ UNCHANGED <<ui, summary, outcome>>
    /\ UNCHANGED <<concVars, variant, seen, news_data, topic, submit_button, news_articles, assistant, thread,
                   messages, shown>>

\* the timeout branch without its return: the loop goes on
AppTimeout_NoReturn ==
    /\ variant = "app"
    /\ pc = "poll"
    /\ elapsed > Timeout
    /\ ui' = Show(ui, "error", "News summarization timed out")
    /\ summary' = None
    /\ outcome' = "TimedOut"
    /\ pc' = "sleep"
    /\ UNCHANGED <<concVars, variant, seen, news_data, topic, submit_button, news_articles, assistant, thread,
                   run_status, elapsed, calls, messages, shown>>

\* app.py, loop head: the deadline has passed
AppTimeout ==
    /\ variant = "app"
    /\ pc = "poll"
    /\ DeadlineExceeded(elapsed)
    /\ ui' = Show(ui, "error", "News summarization timed out")
    /\ summary' = ReturnOnTimeout
    /\ outcome' = "TimedOut"
    /\ pc' = "display"
    /\ UNCHANGED <<concVars, variant, seen, news_data, topic, submit_button, news_articles, assistant, thread,
                   run_status, elapsed, calls, messages, shown>>

\* app.py, loop body: runs.retrieve and the branch on run.status
AppRetrieve ==
    /\ variant = "app"
    /\ pc = "poll"
    /\ ~DeadlineExceeded(elapsed)
    /\ \/ /\ calls' = Log(calls, "runs.retrieve", "raise")
          /\ SummarizeRaised
          /\ UNCHANGED <<run_status, seen>>
       \/ \E s \in Statuses :
          /\ calls' = Log(calls, "runs.retrieve", "ok")
          /\ run_status' = s
          /\ seen' = seen \cup {s}
          /\ IF s = "completed"
             THEN /\ pc' = "list_messages"
                  /\ UNCHANGED <<ui, summary, outcome>>
             ELSE IF AppRunFailed(s)
             THEN /\ ui' = Show(ui, "error", "Run failed with status")
                  /\ summary' = ReturnOnRemoteFailure
                  /\ outcome' = "RemoteRunError"
                  /\ pc' = "display"
             ELSE /\ pc' = "sleep"
                  /\ UNCHANGED <<ui, summary, outcome>>
    /\ UNCHANGED <<concVars, variant, topic, submit_button, news_data, news_articles, assistant, thread,
                   elapsed, messages, shown>>

\* app.py: time.sleep(5)
AppSleep ==
    /\ variant = "app"
    /\ pc = "sleep"
    /\ elapsed' = Min(elapsed + PollSleep, ClockCap)
    /\ pc' = "poll"
    /\ UNCHANGED <<concVars, variant, seen, news_data, topic, submit_button, news_articles, assistant, thread,
                   run_status, calls, messages, summary, outcome, ui, shown>>

\* sum_open.py, loop body: time.sleep(3), then runs.retrieve
OpenPoll ==
    /\ variant = "open"
    /\ pc = "poll"
    /\ ~OpenLoopEnds(run_status)
    /\ elapsed' = Min(elapsed + OpenPollSleep, ClockCap)
    /\ \/ /\ calls' = Log(calls, "runs.retrieve", "raise")
          /\ SummarizeRaised
          /\ UNCHANGED <<run_status, seen>>
       \/ \E s \in Statuses :
          /\ calls' = Log(calls, "runs.retrieve", "ok")
          /\ run_status' = s
          /\ seen' = seen \cup {s}
          /\ pc' = "poll"
          /\ UNCHANGED <<ui, summary, outcome>>
    /\ UNCHANGED <<concVars, variant, topic, submit_button, news_data, news_articles, assistant, thread,
                   messages, shown>>

\* sum_open.py, after the loop: run.status is "completed" or "failed"
OpenLoopExit ==
    /\ variant = "open"
    /\ pc = "poll"
    /\ OpenLoopEnds(run_status)
    /\ IF run_status = "completed"
       THEN /\ pc' = "list_messages"
            /\ UNCHANGED <<ui, summary, outcome>>
       ELSE /\ ui' = Show(ui, "error", "News summarization failed.")
            /\ summary' = ReturnOnRemoteFailure
            /\ outcome' = "RemoteRunError"
            /\ pc' = "display"
    /\ UNCHANGED <<concVars, variant, seen, news_data, topic, submit_button, news_articles, assistant, thread,
                   run_status, elapsed, calls, messages, shown>>

\* messages.list and the pick of the assistant's message
ListMessages ==
    /\ pc = "list_messages"
    /\ \/ /\ calls' = Log(calls, "messages.list", "raise")
          /\ SummarizeRaised
          /\ UNCHANGED messages
       \/ \E m \in SeqsUpTo(Messages, MaxMsgs) :
          /\ calls' = Log(calls, "messages.list", "ok")
          /\ messages' = m
          /\ summary' = Extract(variant, m)
          /\ outcome' = "Completed"
          /\ pc' = "display"
          /\ UNCHANGED ui
    /\ UNCHANGED <<concVars, variant, seen, news_data, topic, submit_button, news_articles, assistant, thread,
                   run_status, elapsed, shown>>

\* main: `if summary: ... else: st.error(...)`
Display ==
    /\ pc = "display"
    /\ IF Truthy(summary)
       THEN /\ ui' = Show(ui, "summary", summary)
            /\ shown' = news_articles
       ELSE /\ ui' = Show(ui, "error", "Failed to generate news summary.")
            /\ UNCHANGED shown
    /\ pc' = "done"
    /\ UNCHANGED <<concVars, variant, seen, news_data, topic, submit_button, news_articles, assistant, thread,
                   run_status, elapsed, calls, messages, summary, outcome>>

----------------------------------------------------------------------------
\* sum_groq.py

\* analyzer.summarize(news_articles, topic), then the summary is rendered
GroqSummarize ==
    /\ pc = "groq_summarize"
    /\ \/ /\ calls' = Log(calls, "chat.completions.create", "raise")
          /\ summary' = "Error generating summary"
       \/ \E t \in Texts :
          /\ calls' = Log(calls, "chat.completions.create", "ok")
          /\ summary' = t
    /\ ui' = Show(ui, "summary", summary')
    /\ pc' = "tts"
    /\ UNCHANGED <<concVars, variant, seen, news_data, topic, submit_button, news_articles, assistant, thread,
                   run_status, elapsed, messages, outcome, shown>>

\* text_to_speech(summary), the player, and the expander with the articles
GroqTts ==
    /\ pc = "tts"
    /\ \E ok \in BOOLEAN :
         /\ calls' = Log(calls, "gtts.save", IF ok THEN "ok" ELSE "raise")
         /\ ui' = IF ok THEN Show(ui, "audio", "summary.mp3")
                        ELSE Show(ui, "error", "Text-to-Speech conversion error")
    /\ shown' = news_articles
    /\ pc' = "done"
    /\ UNCHANGED <<concVars, variant, seen, news_data, topic, submit_button, news_articles, assistant, thread,
                   run_status, elapsed, messages, summary, outcome>>

----------------------------------------------------------------------------
Next ==
    \/ MainGuard
    \/ GetNews
    \/ CreateAssistant
    \/ CreateThread
    \/ AddNews
    \/ RunsCreate
    \/ AppTimeout
    \/ AppRetrieve
    \/ AppSleep
    \/ OpenPoll
    \/ OpenLoopExit
    \/ ListMessages
    \/ Display
    \/ GroqSummarize
    \/ GroqTts

Spec == Init /\ [][Next]_vars

\* every blocking call returns and every sleep ends: main always takes its next step
FairSpec == Spec /\ WF_vars(Next)

----------------------------------------------------------------------------
\* NewsSummarizer driven by a caller other than main: add_news_to_thread and
\* summarize_news, or summarize_news alone, on a summarizer whose
\* create_assistant and create_thread were each called with success or not at all

JobInit ==
    /\ variant \in {"app", "open"}
    /\ pc \in {"add_news", "runs_create"}
    /\ assistant \in {None, "asst_1"}
    /\ thread \in {None, "thread_1"}
    /\ topic = <<"a", "i">>
    /\ submit_button = TRUE
    /\ news_data \in {<<r>> : r \in RawArticles}
    /\ news_articles = FormatAll(variant, news_data)
    /\ run_status = None
    /\ elapsed = 0
    /\ calls = <<>>
    /\ messages = <<>>
    /\ summary = None
    /\ outcome = "none"
    /\ seen = {}
    /\ ui = <<>>
    /\ shown = <<>>
    /\ sessions = [i \in Invocations |->
                      [pc |-> "create_assistant", assistant |-> 0, thread |-> 0, run |-> 0]]
    /\ remote = [assistants |-> <<>>, threads |-> <<>>, runs |-> <<>>]
    /\ targets = {}

JobNext ==
    \/ AddNews
    \/ RunsCreate
    \/ AppTimeout
    \/ AppRetrieve
    \/ AppSleep
    \/ OpenPoll
    \/ OpenLoopExit
    \/ ListMessages

JobSpec == JobInit /\ [][JobNext]_vars

----------------------------------------------------------------------------
\* Several runs of app.py's main side by side, from `summarizer = NewsSummarizer()`
\* on.  Every run has a summarizer of its own; all of them call the one
\* module-level client.  An id is the position of the object in the API's list
\* of created objects, 0 stands for None.  Whether the deadline has passed at a
\* loop head is left open: the other runs take any amount of time.

\* self.thread.id, self.assistant.id, and summarize_news' run.id, of run i
ThreadOf_LastCreated(i) == Len(remote.threads)

ThreadOf(i) == sessions[i].thread

AssistantOf(i) == sessions[i].assistant

RunOf(i) == sessions[i].run

Target(i, op, run) == [by |-> i, op |-> op, thread |-> ThreadOf(i), run |-> run]

MainVarsUnchanged ==
    UNCHANGED <<variant, pc, topic, submit_button, news_data, news_articles, assistant,
                   thread, run_status, elapsed, calls, messages, summary, outcome, seen, ui,
                   shown>>

ConcCreateAssistant(i) ==
    /\ sessions[i].pc = "create_assistant"
    /\ \/ /\ remote' = [remote EXCEPT !.assistants = Append(@, i)]
          /\ sessions' = [sessions EXCEPT ![i].assistant = Len(remote.assistants) + 1,
                                          ![i].pc = "create_thread"]
       \/ /\ sessions' = [sessions EXCEPT ![i].pc = "done"]
          /\ UNCHANGED remote
    /\ UNCHANGED targets
    /\ MainVarsUnchanged

ConcCreateThread(i) ==
    /\ sessions[i].pc = "create_thread"
    /\ \/ /\ remote' = [remote EXCEPT !.threads = Append(@, i)]
          /\ sessions' = [sessions EXCEPT ![i].thread = Len(remote.threads) + 1,
                                          ![i].pc = "add_news"]
       \/ /\ sessions' = [sessions EXCEPT ![i].pc = "done"]
          /\ UNCHANGED remote
    /\ UNCHANGED targets
    /\ MainVarsUnchanged

\* messages.create(thread_id=self.thread.id, ...), raising or not
ConcAddNews(i) ==
    /\ sessions[i].pc = "add_news"
    /\ targets' = targets \cup {Target(i, "messages.create", 0)}
    /\ sessions' = [sessions EXCEPT ![i].pc = "runs_create"]
    /\ UNCHANGED remote
    /\ MainVarsUnchanged

\* runs.create(thread_id=self.thread.id, assistant_id=self.assistant.id, ...)
ConcRunsCreate(i) ==
    /\ sessions[i].pc = "runs_create"
    /\ targets' = targets \cup {Target(i, "runs.create", 0)}
    /\ \/ /\ remote' = [remote EXCEPT !.runs = Append(@, [by |-> i, thread |-> ThreadOf(i),
                                                          assistant |-> AssistantOf(i)])]
          /\ sessions' = [sessions EXCEPT ![i].run = Len(remote.runs) + 1,
                                          ![i].pc = "poll"]
       \/ /\ sessions' = [sessions EXCEPT ![i].pc = "done"]
          /\ UNCHANGED remote
    /\ MainVarsUnchanged

\* one turn of the loop: the timeout, or runs.retrieve(thread_id, run_id) and
\* the branch on its status, with the sleep when the run goes on
ConcPoll(i) ==
    /\ sessions[i].pc = "poll"
    /\ \/ /\ sessions' = [sessions EXCEPT ![i].pc = "done"]
          /\ UNCHANGED targets
       \/ /\ targets' = targets \cup {Target(i, "runs.retrieve", RunOf(i))}
          /\ \E s \in Statuses \cup {"raise"} :
               sessions' = [sessions EXCEPT ![i].pc =
                               IF s = "completed" THEN "list_messages"
                               ELSE IF AppRunFailed(s) \/ s = "raise" THEN "done"
                               ELSE "poll"]
    /\ UNCHANGED remote
    /\ MainVarsUnchanged

\* messages.list(thread_id=self.thread.id)
ConcListMessages(i) ==
    /\ sessions[i].pc = "list_messages"
    /\ targets' = targets \cup {Target(i, "messages.list", 0)}
    /\ sessions' = [sessions EXCEPT ![i].pc = "done"]
    /\ UNCHANGED remote
    /\ MainVarsUnchanged

ConcInit ==
    /\ Init
    /\ variant = "app"
    /\ topic = <<"a", "i">>
    /\ submit_button = TRUE

ConcNext ==
    \E i \in Invocations :
        \/ ConcCreateAssistant(i)
        \/ ConcCreateThread(i)
        \/ ConcAddNews(i)
        \/ ConcRunsCreate(i)
        \/ ConcPoll(i)
        \/ ConcListMessages(i)

ConcSpec == ConcInit /\ [][ConcNext]_vars

----------------------------------------------------------------------------
\* Properties

JobCalls == {"messages.create", "runs.create", "runs.retrieve", "messages.list"}

SummarizerCalls == JobCalls \cup {"assistants.create", "threads.create",
                                  "chat.completions.create"}

Called(op, res) == \E i \in 1..Len(calls) : calls[i] = [op |-> op, res |-> res]

Shown(kind, text) == \E i \in 1..Len(ui) : ui[i] = [kind |-> kind, text |-> text]

AssistantIndexes(m) == {i \in 1..Len(m) : m[i].role = "assistant"}

\* the newest assistant message of a newest-first list
NewestAssistantText(m) ==
    m[CHOOSE i \in AssistantIndexes(m) : \A j \in AssistantIndexes(m) : i <= j].text

IsBlank(t) == \A i \in 1..Len(t) : t[i] = " "

\* C1: once summarize_news has left through one of its return statements the
\* outcome never changes, the job is never again at a poll, a sleep or a
\* message fetch, and no further runs.retrieve call is issued.
C1_OneTerminalOutcome ==
    [][outcome # "none" =>
          /\ outcome \in {"Completed", "RemoteRunError", "SummarizationError", "TimedOut"}
          /\ outcome' = outcome
          /\ pc' \notin {"runs_create", "poll", "sleep", "list_messages"}
          /\ Count(calls', "runs.retrieve") = Count(calls, "runs.retrieve")]_vars

C1_Witness ==
    /\ variant = "app"
    /\ outcome = "TimedOut"
    /\ pc = "done"
    /\ Count(calls, "runs.retrieve") > 0

\* C2: every invocation ends: once the poll loop is entered, summarize_news
\* eventually returns an outcome (fails for sum_open.py, which has no deadline).
C2_PollingTerminates == (pc = "poll") ~> (outcome # "none")

\* C3: the value returned on a timeout differs from the value returned on a
\* remote failure and from every summary text (fails: all of them are None).
C3_TimedOutIsDistinct ==
    outcome = "TimedOut" =>
        /\ summary # ReturnOnRemoteFailure
        /\ summary \notin Texts \cup {NoSummary}

\* C4: after a poll has observed "failed" or "cancelled" there is no further
\* runs.retrieve and no messages.list call, and the outcome is RemoteRunError
\* (fails for sum_open.py, whose loop does not end on "cancelled").
C4_RemoteFailureStopsJob ==
    [][seen \cap {"failed", "cancelled"} # {} =>
          /\ Count(calls', "runs.retrieve") = Count(calls, "runs.retrieve")
          /\ Count(calls', "messages.list") = Count(calls, "messages.list")
          /\ outcome' \in {"none", "RemoteRunError"}]_vars

\* C5: on "completed" with an assistant message in the list, the summary is
\* the text of the first assistant entry of the newest-first list (fails for
\* app.py, which walks the list reversed).
C5_NewestAssistantMessage ==
    (outcome = "Completed" /\ AssistantIndexes(messages) # {}) =>
        summary = NewestAssistantText(messages)

\* C6: in app.py, when the polls returned "running" k times and then
\* "completed", and messages.list delivered a list with exactly one assistant
\* message, summarize_news returns that message's text as Completed.
C6_RunningThenCompleted ==
    (/\ variant = "app"
     /\ outcome # "none"
     /\ seen \subseteq {"running", "completed"}
     /\ run_status = "completed"
     /\ Called("messages.list", "ok")
     /\ Cardinality(AssistantIndexes(messages)) = 1) =>
        /\ outcome = "Completed"
        /\ summary = NewestAssistantText(messages)

C6_Witness ==
    /\ variant = "app"
    /\ pc = "done"
    /\ outcome = "Completed"
    /\ seen = {"running", "completed"}
    /\ Count(calls, "runs.retrieve") = 3
    /\ Len(messages) = 2
    /\ Cardinality(AssistantIndexes(messages)) = 1

\* C7: when messages.create raised in add_news_to_thread, runs.create is never
\* called (fails: the exception is swallowed and main goes on).
C7_NoRunAfterFailedSubmission ==
    Called("messages.create", "raise") => "runs.create" \notin Ops(calls)

\* C8: when threads.create raised, main has ended without an exception
\* escaping, the error was reported, and threads.create is the last remote
\* call: no attach-input, start-run, get-run-status or list-messages follows.
C8_ContextFailureIsTerminal ==
    Called("threads.create", "raise") =>
        /\ pc = "done"
        /\ calls[Len(calls)].op = "threads.create"
        /\ Ops(calls) \cap JobCalls = {}
        /\ Shown("error", ThreadErrorText(variant))
        /\ outcome = "none"

C8_Witness ==
    /\ variant = "app"
    /\ pc = "done"
    /\ Called("assistants.create", "ok")
    /\ Called("threads.create", "raise")

\* C9: an empty or whitespace-only topic causes no network call at all (fails
\* for a whitespace-only topic, which is a true value in Python).
C9_BlankTopicNoNetwork == IsBlank(topic) => calls = <<>>

\* C10: when the fetch returned an empty list, main has returned with the
\* "no articles" warning and the provider request is the only call made.
C10_NoArticlesNoSummarization ==
    (/\ Len(calls) > 0
     /\ calls[1].res \in {"ok", "network_error", "http_error"}
     /\ news_articles = <<>>) =>
        /\ pc = "done"
        /\ Len(calls) = 1
        /\ Ops(calls) \cap SummarizerCalls = {}
        /\ Shown("warning", "No recent news articles found")

C10_Witness ==
    /\ variant = "open"
    /\ pc = "done"
    /\ Called("newsapi.get", "ok")
    /\ news_articles = <<>>

\* C11: when the fetch produced articles and main has ended, the articles were
\* displayed, whatever the summarization did (fails for app.py and sum_open.py,
\* which render them only inside `if summary:`).
C11_ArticlesAlwaysShown ==
    (pc = "done" /\ news_articles # <<>> /\ outcome # "none") => shown = news_articles

\* C12: whatever the provider request brings back other than a well-formed
\* response, the fetch returns the empty list and nothing is raised (fails for
\* the malformed bodies, which raise something else than RequestException).
C12_FetchNeverRaises ==
    (Len(calls) > 0 /\ calls[1].op = "newsapi.get" /\ calls[1].res # "ok") =>
        /\ pc # "crashed"
        /\ news_articles = <<>>

HasTitleAndUrl(a) == a.title \notin {Absent, ""} /\ a.url \notin {Absent, ""}

\* C13: every entry of the fetched list stems from a provider record with a
\* non-empty title and a non-empty url (fails: every record is formatted).
C13_NoArticleWithoutTitleOrUrl ==
    \A i \in 1..Len(news_articles) : HasTitleAndUrl(Page(variant, news_data)[i])

DateRank(d) == IF d = "2024-01-01" THEN 1 ELSE 2

\* C14: the fetched list is in non-increasing order of publishedAt, whatever
\* order the provider sent (fails: the provider's order is kept).
C14_SortedByPublishedAt ==
    \A i, j \in 1..Len(news_articles) :
        i < j => DateRank(Page(variant, news_data)[i].publishedAt)
                     >= DateRank(Page(variant, news_data)[j].publishedAt)

CallRank(op) ==
    CASE op = "newsapi.get" -> 0
      [] op = "assistants.create" -> 1
      [] op = "threads.create" -> 2
      [] op = "messages.create" -> 3
      [] op = "runs.create" -> 4
      [] op = "runs.retrieve" -> 5
      [] op = "messages.list" -> 6
      [] OTHER -> 7

FiveOperations == {"threads.create", "messages.create", "runs.create", "runs.retrieve",
                   "messages.list"}

\* create-context, attach-input, start-run, polls, at most one list-messages, in
\* that order; the first three once each when summarize_news ran; list-messages
\* right after the poll that observed "completed"
JobCallOrder ==
    /\ \A i, j \in 1..Len(calls) :
          i < j => \/ CallRank(calls[i].op) < CallRank(calls[j].op)
                   \/ calls[i].op = "runs.retrieve" /\ calls[j].op = "runs.retrieve"
    /\ outcome # "none" =>
          /\ Count(calls, "threads.create") = 1
          /\ Count(calls, "messages.create") = 1
          /\ Count(calls, "runs.create") = 1
    /\ \A i \in 1..Len(calls) :
          calls[i].op = "messages.list" =>
              /\ i > 1
              /\ calls[i - 1] = [op |-> "runs.retrieve", res |-> "ok"]
              /\ "completed" \in seen

\* C15 as stated: the order above, and the job calls nothing but the five
\* operations (fails: NewsSummarizer.create_assistant calls assistants.create).
C15_OnlyFiveOperations ==
    variant = "app" =>
        /\ JobCallOrder
        /\ Ops(calls) \ {"newsapi.get"} \subseteq FiveOperations

\* C15 as amended: the order above, and the job calls nothing but the five
\* operations and assistants.create, which comes once, before create-context.
C15_FiveOperationsAfterAssistant ==
    variant = "app" =>
        /\ JobCallOrder
        /\ Ops(calls) \ {"newsapi.get"} \subseteq FiveOperations \cup {"assistants.create"}
        /\ "threads.create" \in Ops(calls) => Called("assistants.create", "ok")

C15_Witness ==
    /\ variant = "app"
    /\ pc = "done"
    /\ outcome = "Completed"
    /\ Count(calls, "runs.retrieve") = 2
    /\ Called("messages.list", "ok")

\* C16: when summarize_news times out it has tried to cancel the run (fails:
\* app.py reports the timeout and returns, and never calls runs.cancel).
C16_CancelOnTimeout == outcome = "TimedOut" => "runs.cancel" \in Ops(calls)

FailedCall(e) ==
    \/ e.op \in {"runs.create", "runs.retrieve", "messages.list"} /\ e.res = "raise"
    \/ e.op = "newsapi.get" /\ e.res \in {"network_error", "http_error"}

\* C17: a start-run, get-run-status, list-messages or provider call that raised
\* is the last call of the invocation: nothing is retried, the poll loop is
\* over, and the failure is reported (the job's as SummarizationError and None,
\* the provider's as an error and the empty list).
C17_NoRetryAfterFailure ==
    \A i \in 1..Len(calls) :
        FailedCall(calls[i]) =>
            /\ i = Len(calls)
            /\ IF calls[i].op = "newsapi.get"
               THEN /\ pc = "done"
                    /\ news_articles = <<>>
                    /\ Shown("error", FetchErrorText(variant))
               ELSE /\ pc \in {"display", "done"}
                    /\ outcome = "SummarizationError"
                    /\ summary = None
                    /\ Shown("error", SummarizeErrorText(variant))
                    /\ pc = "done" => Shown("error", "Failed to generate news summary.")

C17_Witness ==
    /\ variant = "app"
    /\ pc = "done"
    /\ Count(calls, "runs.retrieve") = 3
    /\ Called("runs.retrieve", "raise")

\* C18: on "completed" with no assistant message in the list, summarize_news
\* returns "No summary generated." and main shows it as the summary, with the
\* articles, and reports no failure.
C18_FallbackIsSuccess ==
    (outcome = "Completed" /\ AssistantIndexes(messages) = {}) =>
        /\ summary = NoSummary
        /\ pc = "done" =>
              /\ Shown("summary", NoSummary)
              /\ shown = news_articles
              /\ ~Shown("error", "Failed to generate news summary.")

C18_Witness ==
    /\ variant = "app"
    /\ pc = "done"
    /\ outcome = "Completed"
    /\ Len(messages) = 1
    /\ AssistantIndexes(messages) = {}

\* C19: with several runs of main interleaved, every attach-input, start-run,
\* get-run-status and list-messages call goes to the thread, the assistant and
\* the run that the calling run itself created.
C19_CallsTargetOwnObjects ==
    /\ \A t \in targets :
          /\ t.thread \in 1..Len(remote.threads)
          /\ remote.threads[t.thread] = t.by
          /\ t.op = "runs.retrieve" =>
                /\ t.run \in 1..Len(remote.runs)
                /\ remote.runs[t.run].by = t.by
                /\ remote.runs[t.run].thread = t.thread
    /\ \A k \in 1..Len(remote.runs) :
          /\ remote.runs[k].assistant \in 1..Len(remote.assistants)
          /\ remote.assistants[remote.runs[k].assistant] = remote.runs[k].by

C19_Witness ==
    /\ sessions[1].thread = 2
    /\ sessions[2].thread = 1
    /\ \A i \in {1, 2} :
          /\ sessions[i].pc = "done"
          /\ \E t \in targets : t.by = i /\ t.op = "runs.retrieve"
          /\ \E t \in targets : t.by = i /\ t.op = "messages.list"

\* C20: add_news_to_thread without a thread, and summarize_news without a
\* thread or without an assistant, raise: no call is made and the summarizer's
\* assistant and thread stay as they were.
C20_OutOfOrderRaises ==
    [][(\/ pc = "add_news" /\ thread = None
        \/ pc = "runs_create" /\ (thread = None \/ assistant = None)) =>
          /\ pc' = "crashed"
          /\ calls' = calls
          /\ assistant' = assistant
          /\ thread' = thread]_vars

C20_Witness ==
    /\ pc = "crashed"
    /\ thread # None
    /\ assistant = None
    /\ Called("messages.create", "ok")

\* C21: in app.py, time passing in the 5-second sleep only, every
\* runs.retrieve is issued at an elapsed time of at most the timeout, and one
\* invocation issues at most floor(timeout / 5) + 1 of them.
C21_PollsBoundedByDeadline ==
    [][variant = "app" =>
          /\ Count(calls', "runs.retrieve") <= (Timeout \div PollSleep) + 1
          /\ Count(calls', "runs.retrieve") > Count(calls, "runs.retrieve") =>
                elapsed <= Timeout]_vars

C21_Witness ==
    /\ variant = "app"
    /\ outcome = "TimedOut"
    /\ seen = {"running"}
    /\ Count(calls, "runs.retrieve") = (Timeout \div PollSleep) + 1

====
